---- MODULE Spec2Model ----
(***************************************************************************)
(* A model of scripts/make_pack.py: the TF-IDF pack generator.             *)
(*                                                                         *)
(* Text is a sequence of characters; a character is a one-symbol string.   *)
(* Control characters and non-ASCII glyphs carry symbolic names ("LF",     *)
(* "SP", "U2022", ...), every other character stands for itself.           *)
(***************************************************************************)
EXTENDS Integers, Sequences, FiniteSets, TLC

VARIABLES
    pc,          \* position of the run
    pdf_exists,  \* args.pdf_path.exists()
    pypdf2,      \* the primary backend: [status, pages]
    pdfminer,    \* the secondary backend: [status, text]
    disk,        \* what write_pack meets: "ok", "mkdir_fails", "dump_fails"
    calls,       \* the calls the run has made, in order
    raw_text,    \* load_pdf_text's result
    normalized,  \* normalize_text's result
    chunks,      \* split_chunks' result
    seg_log,     \* history of split_chunks: the flushed candidates and one event per line
    iter_order,  \* the iteration orders of the run's counters and sets
    pack,        \* build_pack's result
    pack2,       \* build_pack's result in a second run on the same input
    build_log,   \* build_pack's local doc_freq, as it stands at the end of the call
    output,      \* the output file: "none", "partial" or the pack written
    error        \* "none" or the fatal error that ended the run

vars == <<pc, pdf_exists, pypdf2, pdfminer, disk, calls, raw_text, normalized,
          chunks, seg_log, iter_order, pack, pack2, build_log, output, error>>

-----------------------------------------------------------------------------
(* Characters *)

LF == "LF"
CR == "CR"
SP == "SP"
TAB == "TAB"

\* BULLET_CHARS and UNICODE_DASHES, by code point.
BULLET_CHARS == {"U2022", "U25CF", "U25AA", "UFE0E", "U25E6", "U25C9"}
UNICODE_DASHES == {"U2012", "U2013", "U2014", "U2015", "U2212"}

\* The non-ASCII characters of the model: the glyphs above, e-acute and the
\* no-break space.
NonAscii == BULLET_CHARS \cup UNICODE_DASHES \cup {"U00E9", "U00A0"}

\* What str.strip(), str.split() and the pattern \s take for whitespace.
Whitespace == {SP, TAB, LF, CR, "VT", "FF", "U00A0"}

\* Where str.splitlines() breaks a line.
LineBreaks == {LF, CR, "VT", "FF"}

Digits == {"0", "1", "2", "3", "4", "5", "6", "7", "8", "9"}
LowerLetters == {"a", "b", "c", "d", "e", "f", "g", "h", "i", "j", "k", "l", "m",
                 "n", "o", "p", "q", "r", "s", "t", "u", "v", "w", "x", "y", "z"}
UpperLetters == {"A", "B", "C", "D", "E", "F", "G", "H", "I", "J", "K", "L", "M",
                 "N", "O", "P", "Q", "R", "S", "T", "U", "V", "W", "X", "Y", "Z"}
AlphaNum == LowerLetters \cup UpperLetters \cup Digits

LowerOf == [c \in UpperLetters |->
    CASE c = "A" -> "a" [] c = "B" -> "b" [] c = "C" -> "c" [] c = "D" -> "d"
      [] c = "E" -> "e" [] c = "F" -> "f" [] c = "G" -> "g" [] c = "H" -> "h"
      [] c = "I" -> "i" [] c = "J" -> "j" [] c = "K" -> "k" [] c = "L" -> "l"
      [] c = "M" -> "m" [] c = "N" -> "n" [] c = "O" -> "o" [] c = "P" -> "p"
      [] c = "Q" -> "q" [] c = "R" -> "r" [] c = "S" -> "s" [] c = "T" -> "t"
      [] c = "U" -> "u" [] c = "V" -> "v" [] c = "W" -> "w" [] c = "X" -> "x"
      [] c = "Y" -> "y" [] c = "Z" -> "z"]

\* str.lower()
lower(s) == [i \in 1..Len(s) |-> IF s[i] \in UpperLetters THEN LowerOf[s[i]] ELSE s[i]]

-----------------------------------------------------------------------------
(* String primitives *)

\* The first position at or after i whose character is outside set.
RECURSIVE RunEnd(_, _, _)
RunEnd(s, i, set) ==
    IF i <= Len(s) /\ s[i] \in set THEN RunEnd(s, i + 1, set) ELSE i

Drop(s, n) == SubSeq(s, n + 1, Len(s))

startswith(s, prefix) ==
    Len(s) >= Len(prefix) /\ SubSeq(s, 1, Len(prefix)) = prefix

\* str.replace(pat, rep): every non-overlapping occurrence, left to right.
RECURSIVE replace(_, _, _)
replace(s, pat, rep) ==
    IF Len(s) < Len(pat) THEN s
    ELSE IF startswith(s, pat) THEN rep \o replace(Drop(s, Len(pat)), pat, rep)
    ELSE <<s[1]>> \o replace(Tail(s), pat, rep)

\* str.replace(ch, "-") for every ch of a glyph set.
replace_glyphs(s, glyphs) == [i \in 1..Len(s) |-> IF s[i] \in glyphs THEN "-" ELSE s[i]]

RECURSIVE LastNonWs(_, _)
LastNonWs(s, i) == IF i >= 1 /\ s[i] \in Whitespace THEN LastNonWs(s, i - 1) ELSE i

\* str.strip()
strip(s) == SubSeq(s, RunEnd(s, 1, Whitespace), LastNonWs(s, Len(s)))

\* re.sub(r"[ \t]+\n", "\n", s)
RECURSIVE sub_trailing_blanks(_)
sub_trailing_blanks(s) ==
    IF s = <<>> THEN <<>>
    ELSE IF s[1] \in {SP, TAB}
    THEN LET j == RunEnd(s, 1, {SP, TAB}) IN
         IF j <= Len(s) /\ s[j] = LF
         THEN <<LF>> \o sub_trailing_blanks(Drop(s, j))
         ELSE SubSeq(s, 1, j - 1) \o sub_trailing_blanks(Drop(s, j - 1))
    ELSE <<s[1]>> \o sub_trailing_blanks(Tail(s))

\* re.sub(r"\n{3,}", "\n\n", s)
RECURSIVE sub_newline_runs(_)
sub_newline_runs(s) ==
    IF s = <<>> THEN <<>>
    ELSE IF s[1] = LF
    THEN LET j == RunEnd(s, 1, {LF}) IN
         (IF j - 1 >= 3 THEN <<LF, LF>> ELSE SubSeq(s, 1, j - 1))
             \o sub_newline_runs(Drop(s, j - 1))
    ELSE <<s[1]>> \o sub_newline_runs(Tail(s))

\* re.sub(r"\n-\s*", "\n- ", s)
RECURSIVE sub_bullets(_)
sub_bullets(s) ==
    IF s = <<>> THEN <<>>
    ELSE IF startswith(s, <<LF, "-">>)
    THEN <<LF, "-", SP>> \o sub_bullets(Drop(s, RunEnd(s, 3, Whitespace) - 1))
    ELSE <<s[1]>> \o sub_bullets(Tail(s))

\* s.encode("ascii", "ignore").decode("ascii")
ascii_only(s) == SelectSeq(s, LAMBDA c : c \notin NonAscii)

\* The icon-glyph artifacts and their labels.
MAP_MARKER == <<"a", "p", "-", "a", "r", "k", "e", "r", "-", "a", "l", "t">>
LOCATION_LABEL == <<"L", "o", "c", "a", "t", "i", "o", "n", ":", SP>>
ENVELOPE == <<"/", "e", "n", "v", "e", "l", "p", "e">>
EMAIL_LABEL == <<SP, "E", "m", "a", "i", "l", ":", SP>>
PHONE_ALT == <<"p", "h", "o", "n", "e", "-", "a", "l", "t">>
PHONE_LABEL == <<SP, "P", "h", "o", "n", "e", ":", SP>>

\* normalize_text(raw)
normalize_text(raw) ==
    LET s1 == replace(raw, <<CR, LF>>, <<LF>>)
        s2 == replace_glyphs(s1, BULLET_CHARS)
        s3 == replace_glyphs(s2, UNICODE_DASHES)
        s4 == sub_trailing_blanks(s3)
        s5 == sub_newline_runs(s4)
        s6 == sub_bullets(s5)
        s7 == ascii_only(s6)
        s8 == replace(s7, MAP_MARKER, LOCATION_LABEL)
        s9 == replace(s8, ENVELOPE, EMAIL_LABEL)
        s10 == replace(s9, PHONE_ALT, PHONE_LABEL)
    IN strip(s10)

-----------------------------------------------------------------------------
(* split_chunks *)

MinWords == 5

\* The first position at or after i whose character is in set (Len(s)+1 when none).
RECURSIVE FindFirst(_, _, _)
FindFirst(s, i, set) ==
    IF i <= Len(s) /\ s[i] \notin set THEN FindFirst(s, i + 1, set) ELSE i

\* str.splitlines(): CR LF is one break, and a final break opens no empty line.
RECURSIVE splitlines(_)
splitlines(s) ==
    IF s = <<>> THEN <<>>
    ELSE LET j == FindFirst(s, 1, LineBreaks)
             crlf == j < Len(s) /\ s[j] = CR /\ s[j + 1] = LF
         IN <<SubSeq(s, 1, j - 1)>> \o splitlines(Drop(s, IF crlf THEN j + 1 ELSE j))

\* str.split(): the maximal runs of non-whitespace.
RECURSIVE split(_)
split(s) ==
    LET i == RunEnd(s, 1, Whitespace) IN
    IF i > Len(s) THEN <<>>
    ELSE LET j == FindFirst(s, i, Whitespace) IN
         <<SubSeq(s, i, j - 1)>> \o split(Drop(s, j - 1))

\* " ".join(parts)
RECURSIVE join(_)
join(parts) ==
    IF parts = <<>> THEN <<>>
    ELSE IF Len(parts) = 1 THEN parts[1]
    ELSE parts[1] \o <<SP>> \o join(Tail(parts))

\* re.sub(r"\s{2,}", " ", s)
RECURSIVE sub_space_runs(_)
sub_space_runs(s) ==
    IF s = <<>> THEN <<>>
    ELSE IF s[1] \in Whitespace
    THEN LET j == RunEnd(s, 1, Whitespace) IN
         (IF j - 1 >= 2 THEN <<SP>> ELSE <<s[1]>>) \o sub_space_runs(Drop(s, j - 1))
    ELSE <<s[1]>> \o sub_space_runs(Tail(s))

\* The accumulator of split_chunks with its output, and the history of the scan:
\* the group of lines and the candidate text of every flush, one event per line.
SegStart == [current |-> <<>>, chunks |-> <<>>, groups |-> <<>>,
             candidates |-> <<>>, events |-> <<>>]

\* flush(), the nested function of split_chunks
flush(st) ==
    IF st.current = <<>> THEN st
    ELSE LET chunk == sub_space_runs(strip(join(st.current))) IN
         [st EXCEPT !.chunks = IF Len(split(chunk)) >= MinWords THEN Append(@, chunk) ELSE @,
                    !.groups = Append(@, st.current),
                    !.candidates = Append(@, chunk),
                    !.current = <<>>]

\* bullet_boundary, were the marker the two characters "- "
bullet_boundary_dash_space(line, stripped, current) ==
    startswith(stripped, <<"-", SP>>) /\ current # <<>>

\* The test that makes a line a bullet boundary: stripped.startswith("-") and current
bullet_boundary(line, stripped, current) ==
    startswith(stripped, <<"-">>) /\ current # <<>>

\* The body of split_chunks' loop for one line.
split_line(st, line) ==
    LET stripped == strip(line)
        had == st.current # <<>>
    IN IF stripped = <<>>
       THEN [flush(st) EXCEPT !.events = Append(@,
                [line |-> line, stripped |-> stripped, had |-> had,
                 flushed |-> TRUE, appended |-> FALSE])]
       ELSE LET boundary == bullet_boundary(line, stripped, st.current)
                st1 == IF boundary THEN flush(st) ELSE st
            IN [st1 EXCEPT !.current = Append(@, stripped),
                           !.events = Append(@,
                               [line |-> line, stripped |-> stripped, had |-> had,
                                flushed |-> boundary, appended |-> TRUE])]

RECURSIVE split_loop(_, _)
split_loop(st, lines) ==
    IF lines = <<>> THEN st ELSE split_loop(split_line(st, lines[1]), Tail(lines))

\* split_chunks(text): .chunks is the list returned
split_chunks(text) == flush(split_loop(SegStart, splitlines(text)))

-----------------------------------------------------------------------------
(* tokenize *)

STOPWORDS == {
    <<"a">>, <<"a", "b", "o", "u", "t">>, <<"a", "b", "o", "v", "e">>,
    <<"a", "f", "t", "e", "r">>, <<"a", "g", "a", "i", "n">>,
    <<"a", "g", "a", "i", "n", "s", "t">>, <<"a", "l", "l">>, <<"a", "m">>, <<"a", "n">>,
    <<"a", "n", "d">>, <<"a", "n", "y">>, <<"a", "r", "e">>, <<"a", "r", "e", "n", "'", "t">>,
    <<"a", "s">>, <<"a", "t">>, <<"b", "e">>, <<"b", "e", "c", "a", "u", "s", "e">>,
    <<"b", "e", "e", "n">>, <<"b", "e", "f", "o", "r", "e">>, <<"b", "e", "i", "n", "g">>,
    <<"b", "e", "l", "o", "w">>, <<"b", "e", "t", "w", "e", "e", "n">>, <<"b", "o", "t", "h">>,
    <<"b", "u", "t">>, <<"b", "y">>, <<"c", "a", "n">>, <<"c", "a", "n", "'", "t">>,
    <<"c", "o", "u", "l", "d">>, <<"c", "o", "u", "l", "d", "n", "'", "t">>, <<"d", "i", "d">>,
    <<"d", "i", "d", "n", "'", "t">>, <<"d", "o">>, <<"d", "o", "e", "s">>,
    <<"d", "o", "e", "s", "n", "'", "t">>, <<"d", "o", "i", "n", "g">>,
    <<"d", "o", "n", "'", "t">>, <<"d", "o", "w", "n">>, <<"d", "u", "r", "i", "n", "g">>,
    <<"e", "a", "c", "h">>, <<"f", "e", "w">>, <<"f", "o", "r">>, <<"f", "r", "o", "m">>,
    <<"f", "u", "r", "t", "h", "e", "r">>, <<"h", "a", "d">>, <<"h", "a", "d", "n", "'", "t">>,
    <<"h", "a", "s">>, <<"h", "a", "s", "n", "'", "t">>, <<"h", "a", "v", "e">>,
    <<"h", "a", "v", "e", "n", "'", "t">>, <<"h", "a", "v", "i", "n", "g">>, <<"h", "e">>,
    <<"h", "e", "'", "d">>, <<"h", "e", "'", "l", "l">>, <<"h", "e", "'", "s">>,
    <<"h", "e", "r">>, <<"h", "e", "r", "e">>, <<"h", "e", "r", "e", "'", "s">>,
    <<"h", "e", "r", "s">>, <<"h", "e", "r", "s", "e", "l", "f">>, <<"h", "i", "m">>,
    <<"h", "i", "m", "s", "e", "l", "f">>, <<"h", "i", "s">>, <<"h", "o", "w">>,
    <<"h", "o", "w", "'", "s">>, <<"i">>, <<"i", "'", "d">>, <<"i", "'", "l", "l">>,
    <<"i", "'", "m">>, <<"i", "'", "v", "e">>, <<"i", "f">>, <<"i", "n">>,
    <<"i", "n", "t", "o">>, <<"i", "s">>, <<"i", "s", "n", "'", "t">>, <<"i", "t">>,
    <<"i", "t", "'", "s">>, <<"i", "t", "s">>, <<"i", "t", "s", "e", "l", "f">>,
    <<"l", "e", "t", "'", "s">>, <<"m", "e">>, <<"m", "o", "r", "e">>, <<"m", "o", "s", "t">>,
    <<"m", "u", "s", "t", "n", "'", "t">>, <<"m", "y">>, <<"m", "y", "s", "e", "l", "f">>,
    <<"n", "o">>, <<"n", "o", "r">>, <<"n", "o", "t">>, <<"o", "f">>, <<"o", "f", "f">>,
    <<"o", "n">>, <<"o", "n", "c", "e">>, <<"o", "n", "l", "y">>, <<"o", "r">>,
    <<"o", "t", "h", "e", "r">>, <<"o", "u", "g", "h", "t">>, <<"o", "u", "r">>,
    <<"o", "u", "r", "s">>, <<"o", "u", "r", "s", "e", "l", "v", "e", "s">>, <<"o", "u", "t">>,
    <<"o", "v", "e", "r">>, <<"o", "w", "n">>, <<"s", "a", "m", "e">>,
    <<"s", "h", "a", "n", "'", "t">>, <<"s", "h", "e">>, <<"s", "h", "e", "'", "d">>,
    <<"s", "h", "e", "'", "l", "l">>, <<"s", "h", "e", "'", "s">>,
    <<"s", "h", "o", "u", "l", "d">>, <<"s", "h", "o", "u", "l", "d", "n", "'", "t">>,
    <<"s", "o">>, <<"s", "o", "m", "e">>, <<"s", "u", "c", "h">>, <<"t", "h", "a", "n">>,
    <<"t", "h", "a", "t">>, <<"t", "h", "a", "t", "'", "s">>, <<"t", "h", "e">>,
    <<"t", "h", "e", "i", "r">>, <<"t", "h", "e", "i", "r", "s">>, <<"t", "h", "e", "m">>,
    <<"t", "h", "e", "m", "s", "e", "l", "v", "e", "s">>, <<"t", "h", "e", "n">>,
    <<"t", "h", "e", "r", "e">>, <<"t", "h", "e", "r", "e", "'", "s">>,
    <<"t", "h", "e", "s", "e">>, <<"t", "h", "e", "y">>, <<"t", "h", "e", "y", "'", "d">>,
    <<"t", "h", "e", "y", "'", "l", "l">>, <<"t", "h", "e", "y", "'", "r", "e">>,
    <<"t", "h", "e", "y", "'", "v", "e">>, <<"t", "h", "i", "s">>, <<"t", "h", "o", "s", "e">>,
    <<"t", "h", "r", "o", "u", "g", "h">>, <<"t", "o">>, <<"t", "o", "o">>,
    <<"u", "n", "d", "e", "r">>, <<"u", "n", "t", "i", "l">>, <<"u", "p">>,
    <<"v", "e", "r", "y">>, <<"w", "a", "s">>, <<"w", "a", "s", "n", "'", "t">>, <<"w", "e">>,
    <<"w", "e", "'", "d">>, <<"w", "e", "'", "l", "l">>, <<"w", "e", "'", "r", "e">>,
    <<"w", "e", "'", "v", "e">>, <<"w", "e", "r", "e">>, <<"w", "e", "r", "e", "n", "'", "t">>,
    <<"w", "h", "a", "t">>, <<"w", "h", "a", "t", "'", "s">>, <<"w", "h", "e", "n">>,
    <<"w", "h", "e", "n", "'", "s">>, <<"w", "h", "e", "r", "e">>,
    <<"w", "h", "e", "r", "e", "'", "s">>, <<"w", "h", "i", "c", "h">>,
    <<"w", "h", "i", "l", "e">>, <<"w", "h", "o">>, <<"w", "h", "o", "'", "s">>,
    <<"w", "h", "o", "m">>, <<"w", "h", "y">>, <<"w", "h", "y", "'", "s">>,
    <<"w", "i", "t", "h">>, <<"w", "o", "n", "'", "t">>, <<"w", "o", "u", "l", "d">>,
    <<"w", "o", "u", "l", "d", "n", "'", "t">>, <<"y", "o", "u">>, <<"y", "o", "u", "'", "d">>,
    <<"y", "o", "u", "'", "l", "l">>, <<"y", "o", "u", "'", "r", "e">>,
    <<"y", "o", "u", "'", "v", "e">>, <<"y", "o", "u", "r">>, <<"y", "o", "u", "r", "s">>,
    <<"y", "o", "u", "r", "s", "e", "l", "f">>,
    <<"y", "o", "u", "r", "s", "e", "l", "v", "e", "s">>}

\* TOKEN_PATTERN.finditer: [A-Za-z0-9]+(?:'[A-Za-z0-9]+)?
RECURSIVE token_matches(_)
token_matches(s) ==
    IF s = <<>> THEN <<>>
    ELSE IF s[1] \in AlphaNum
    THEN LET j == RunEnd(s, 1, AlphaNum)
             ext == j < Len(s) /\ s[j] = "'" /\ s[j + 1] \in AlphaNum
             k == IF ext THEN RunEnd(s, j + 1, AlphaNum) ELSE j
         IN <<SubSeq(s, 1, k - 1)>> \o token_matches(Drop(s, k - 1))
    ELSE token_matches(Tail(s))

\* str.isdigit()
isdigit(t) == t # <<>> /\ \A i \in 1..Len(t) : t[i] \in Digits

\* tokenize(text)
tokenize(text) ==
    SelectSeq(token_matches(lower(text)), LAMBDA t : ~isdigit(t) /\ t \notin STOPWORDS)

-----------------------------------------------------------------------------
(* build_pack *)

MinTokens == 5

\* Floats are fixed-point numbers: the integer n stands for n / Scale.  The
\* logarithm is the series 2 * (z + z^3/3 + z^5/5 + ...), z = (a-b)/(a+b), cut
\* after LnTerms terms, every quotient rounded down, so it never exceeds ln(a/b).
Scale == 1000
LnTerms == 4

\* zp is z^(2k-1)
RECURSIVE ln_series(_, _, _)
ln_series(z, zp, k) ==
    IF k > LnTerms THEN 0
    ELSE (zp \div (2 * k - 1)) + ln_series(z, (((zp * z) \div Scale) * z) \div Scale, k + 1)

\* math.log(a / b), for a >= b >= 1
log_ratio(a, b) ==
    LET z == (Scale * (a - b)) \div (a + b) IN 2 * ln_series(z, z, 1)

\* math.sqrt, rounded down
RECURSIVE sqrt_search(_, _, _)
sqrt_search(n, lo, hi) ==
    IF lo >= hi THEN lo
    ELSE LET mid == (lo + hi + 1) \div 2 IN
         IF mid * mid <= n THEN sqrt_search(n, mid, hi) ELSE sqrt_search(n, lo, mid - 1)

sqrt(n) == sqrt_search(n, 0, IF n < 46340 THEN n ELSE 46340)

\* The characters of a token, in code-point order.
TokenChars == <<"'", "0", "1", "2", "3", "4", "5", "6", "7", "8", "9",
                "a", "b", "c", "d", "e", "f", "g", "h", "i", "j", "k", "l", "m",
                "n", "o", "p", "q", "r", "s", "t", "u", "v", "w", "x", "y", "z">>

ord(c) == CHOOSE i \in 1..Len(TokenChars) : TokenChars[i] = c

\* str.__lt__
RECURSIVE str_less(_, _)
str_less(a, b) ==
    IF b = <<>> THEN FALSE
    ELSE IF a = <<>> THEN TRUE
    ELSE IF a[1] = b[1] THEN str_less(Tail(a), Tail(b))
    ELSE ord(a[1]) < ord(b[1])

\* tuple.__lt__ on (int, number) pairs
pair_less(a, b) == a[1] < b[1] \/ (a[1] = b[1] /\ a[2] < b[2])

RemoveAt(seq, i) == SubSeq(seq, 1, i - 1) \o SubSeq(seq, i + 1, Len(seq))

\* sorted(tokens)
RECURSIVE sorted_tokens(_)
sorted_tokens(seq) ==
    IF seq = <<>> THEN <<>>
    ELSE LET m == CHOOSE i \in 1..Len(seq) : \A j \in 1..Len(seq) : ~str_less(seq[j], seq[i])
         IN <<seq[m]>> \o sorted_tokens(RemoveAt(seq, m))

\* sorted(pairs)
RECURSIVE sorted_pairs(_)
sorted_pairs(seq) ==
    IF seq = <<>> THEN <<>>
    ELSE LET m == CHOOSE i \in 1..Len(seq) : \A j \in 1..Len(seq) : ~pair_less(seq[j], seq[i])
         IN <<seq[m]>> \o sorted_pairs(RemoveAt(seq, m))

RECURSIVE SumSeq(_)
SumSeq(seq) == IF seq = <<>> THEN 0 ELSE seq[1] + SumSeq(Tail(seq))

Range(seq) == {seq[i] : i \in 1..Len(seq)}

\* The keys of a dict, Counter or set of tokens in the order the run iterates them.
\* order lists every token once.
iterate(keys, order) == SelectSeq(order, LAMBDA t : t \in keys)

\* Counter(tokens)[t]
count(tokens, t) == Cardinality({i \in 1..Len(tokens) : tokens[i] = t})

\* keep_chunk, were the words counted and not the tokens
keep_chunk_words(original, tokens) == ~(Len(split(original)) < MinTokens)

\* The filter of build_pack: "if len(tokens) < 5: continue"
keep_chunk(original, tokens) == ~(Len(tokens) < MinTokens)

\* filtered_chunks
filtered_chunks(chunk_list) ==
    SelectSeq([i \in 1..Len(chunk_list) |->
                  [text |-> chunk_list[i], tokens |-> tokenize(chunk_list[i])]],
              LAMBDA c : keep_chunk(c.text, c.tokens))

\* build_vocab, were the keys left in the order the counter yields them
build_vocab_unsorted(filtered, order) ==
    iterate(UNION {Range(filtered[i].tokens) : i \in 1..Len(filtered)}, order)

\* vocab = sorted(vocab_counter.keys())
build_vocab(filtered, order) ==
    sorted_tokens(iterate(UNION {Range(filtered[i].tokens) : i \in 1..Len(filtered)}, order))

\* token_to_index[token]
token_to_index(vocab, token) == (CHOOSE i \in 1..Len(vocab) : vocab[i] = token) - 1

\* tf_items, were the index the position counted from one
tf_items_from_one(tokens, vocab, order) ==
    LET keys == iterate(Range(tokens), order) IN
    [k \in 1..Len(keys) |-> <<token_to_index(vocab, keys[k]) + 1, count(tokens, keys[k])>>]

\* tf_vector before it is sorted: one (idx, count) per item of tf_counter
tf_items(tokens, vocab, order) ==
    LET keys == iterate(Range(tokens), order) IN
    [k \in 1..Len(keys) |-> <<token_to_index(vocab, keys[k]), count(tokens, keys[k])>>]

\* chunk_tf_vectors.append(sorted(tf_vector))
tf_vector(tokens, vocab, order) == sorted_pairs(tf_items(tokens, vocab, order))

\* count_chunk, were the occurrences added and not the chunk counted once
count_chunk_occurrences(doc_freq, tf_vec) ==
    LET seen_indices == {tf_vec[k][1] : k \in 1..Len(tf_vec)} IN
    [idx \in DOMAIN doc_freq \cup seen_indices |->
        (IF idx \in DOMAIN doc_freq THEN doc_freq[idx] ELSE 0)
        + SumSeq([k \in 1..Len(tf_vec) |-> IF tf_vec[k][1] = idx THEN tf_vec[k][2] ELSE 0])]

\* "for idx in seen_indices: doc_freq[idx] += 1" for one chunk
count_chunk(doc_freq, tf_vec) ==
    LET seen_indices == {tf_vec[k][1] : k \in 1..Len(tf_vec)} IN
    [idx \in DOMAIN doc_freq \cup seen_indices |->
        (IF idx \in DOMAIN doc_freq THEN doc_freq[idx] ELSE 0)
        + (IF idx \in seen_indices THEN 1 ELSE 0)]

\* doc_freq after the loop over filtered_chunks
RECURSIVE count_chunks(_, _)
count_chunks(doc_freq, tf_vectors) ==
    IF tf_vectors = <<>> THEN doc_freq
    ELSE count_chunks(count_chunk(doc_freq, tf_vectors[1]), Tail(tf_vectors))

\* idf = math.log((1 + num_docs) / (1 + df)) + 1.0
idf_of(num_docs, df) == log_ratio(1 + num_docs, 1 + df) + Scale

\* chunk_norm, were the idf the unsmoothed log(N / df) and the sum not guarded
chunk_norm_unsmoothed(tf_vec, idf_values) ==
    sqrt(SumSeq([k \in 1..Len(tf_vec) |->
            (tf_vec[k][2] * (idf_values[tf_vec[k][1]] - Scale))
            * (tf_vec[k][2] * (idf_values[tf_vec[k][1]] - Scale))]))

\* norm of one chunk: math.sqrt(norm_sum) if norm_sum else 1.0
chunk_norm(tf_vec, idf_values) ==
    LET norm_sum == SumSeq([k \in 1..Len(tf_vec) |->
                        (tf_vec[k][2] * idf_values[tf_vec[k][1]])
                        * (tf_vec[k][2] * idf_values[tf_vec[k][1]])])
        \* weight * weight carries Scale twice; the root is taken of norm_sum
    IN IF norm_sum # 0 THEN sqrt(norm_sum) ELSE Scale

NoPack == [schema |-> "none"]

\* chunk_tf_vectors
tf_vectors(filtered, vocab, order) ==
    [i \in 1..Len(filtered) |-> tf_vector(filtered[i].tokens, vocab, order)]

\* The pack build_pack assembles from the chunks that passed its filter.
assemble(filtered, order, now) ==
    LET vocab == build_vocab(filtered, order)
        chunk_tf_vectors == tf_vectors(filtered, vocab, order)
        doc_freq == count_chunks(<<>>, chunk_tf_vectors)
        num_docs == Len(filtered)
        idf_values == [idx \in DOMAIN doc_freq |-> idf_of(num_docs, doc_freq[idx])]
        \* "for idx in idf_values": the indices, in the order of their tokens
        known == iterate(Range(vocab), order)
        idf_keys == SelectSeq([k \in 1..Len(known) |-> token_to_index(vocab, known[k])],
                              LAMBDA idx : idx \in DOMAIN idf_values)
        idf_pairs == sorted_pairs([k \in 1..Len(idf_keys) |->
                         <<idf_keys[k], idf_values[idf_keys[k]]>>])
    IN [schema |-> "tfidf-rag-pack@v1",
        source |-> "Siddharth_Suresh_Resume.pdf",
        created |-> now,
        vocab |-> vocab,
        idf_pairs |-> idf_pairs,
        chunks |-> [i \in 1..Len(filtered) |->
                       [text |-> filtered[i].text,
                        tf |-> chunk_tf_vectors[i],
                        norm |-> chunk_norm(chunk_tf_vectors[i], idf_values)]]]

\* doc_freq, the local of build_pack, as it stands when the pack is assembled
doc_freq_of(filtered, order) ==
    count_chunks(<<>>, tf_vectors(filtered, build_vocab(filtered, order), order))

\* build_pack, were the empty list of filtered chunks let through
build_pack_no_abort(chunk_list, order, now) ==
    LET filtered == filtered_chunks(chunk_list) IN
    [raised |-> FALSE, pack |-> assemble(filtered, order, now),
     doc_freq |-> doc_freq_of(filtered, order)]

\* build_pack(chunks): raises SystemExit when no chunk passes the filter.
build_pack(chunk_list, order, now) ==
    LET filtered == filtered_chunks(chunk_list) IN
    IF filtered = <<>>
    THEN [raised |-> TRUE, pack |-> NoPack, doc_freq |-> <<>>]
    ELSE [raised |-> FALSE, pack |-> assemble(filtered, order, now),
          doc_freq |-> doc_freq_of(filtered, order)]

\* The tokens build_pack meets, and the orders a run may iterate them in.
TokensOf(chunk_list) == UNION {Range(tokenize(chunk_list[i])) : i \in 1..Len(chunk_list)}

Orders(S) == {o \in [1..Cardinality(S) -> S] : \A i, j \in DOMAIN o : i # j => o[i] # o[j]}

-----------------------------------------------------------------------------
(* load_pdf_text, write_pack, main *)

\* "\n".join(pages)
RECURSIVE join_lines(_)
join_lines(parts) ==
    IF parts = <<>> THEN <<>>
    ELSE IF Len(parts) = 1 THEN parts[1]
    ELSE parts[1] \o <<LF>> \o join_lines(Tail(parts))

\* The pages the primary backend extracts: a page that raises is skipped.
extracted_pages(pages) ==
    LET good == SelectSeq(pages, LAMBDA pg : pg.ok) IN [i \in 1..Len(good) |-> good[i].text]

\* input_check, were the missing file reported and the run not ended
input_check_warn(exists) ==
    [pc |-> "load_primary", error |-> IF exists THEN "none" ELSE "InputNotFound"]

\* main: "if not args.pdf_path.exists(): raise SystemExit"
input_check(exists) ==
    IF ~exists THEN [pc |-> "exit", error |-> "InputNotFound"]
    ELSE [pc |-> "load_primary", error |-> "none"]

\* load_primary, were the backend's exception not caught
load_primary_no_catch(backend) ==
    IF backend.status = "absent" THEN [returned |-> FALSE, raised |-> FALSE, text |-> <<>>]
    ELSE IF backend.status = "error" THEN [returned |-> FALSE, raised |-> TRUE, text |-> <<>>]
    ELSE LET text == join_lines(extracted_pages(backend.pages)) IN
         IF strip(text) # <<>>
         THEN [returned |-> TRUE, raised |-> FALSE, text |-> text]
         ELSE [returned |-> FALSE, raised |-> FALSE, text |-> <<>>]

\* load_pdf_text, the first try block: returned is whether it returns text;
\* raised, whether an exception leaves it
load_primary(backend) ==
    IF backend.status = "absent" THEN [returned |-> FALSE, raised |-> FALSE, text |-> <<>>]
    ELSE IF backend.status = "error" THEN [returned |-> FALSE, raised |-> FALSE, text |-> <<>>]
    ELSE LET text == join_lines(extracted_pages(backend.pages)) IN
         IF strip(text) # <<>>
         THEN [returned |-> TRUE, raised |-> FALSE, text |-> text]
         ELSE [returned |-> FALSE, raised |-> FALSE, text |-> <<>>]

\* load_pdf_text, the second try block
load_secondary(backend) ==
    IF backend.status = "absent" THEN [error |-> "ExtractionUnavailable", text |-> <<>>]
    ELSE IF backend.status = "error" THEN [error |-> "ExtractionFailed", text |-> <<>>]
    ELSE [error |-> "none", text |-> backend.text]

\* write_pack: mkdir, open, json.dump
write_pack(d) ==
    IF d = "mkdir_fails" THEN [output |-> "none", error |-> "WriteFailed"]
    ELSE IF d = "dump_fails" THEN [output |-> "partial", error |-> "WriteFailed"]
    ELSE [output |-> "complete", error |-> "none"]

-----------------------------------------------------------------------------
(* The run *)

MaxClock == 1
Clock == 0..MaxClock

CheckInput ==
    /\ pc = "main"
    /\ pc' = input_check(pdf_exists).pc
    /\ error' = input_check(pdf_exists).error
    /\ calls' = Append(calls, "exists")
    /\ UNCHANGED <<pdf_exists, pypdf2, pdfminer, disk, raw_text, normalized, chunks,
                   seg_log, iter_order, pack, pack2, build_log, output>>

LoadPrimary ==
    /\ pc = "load_primary"
    /\ LET r == load_primary(pypdf2) IN
       /\ pc' = IF r.raised THEN "exit" ELSE IF r.returned THEN "normalize" ELSE "load_secondary"
       /\ error' = IF r.raised THEN "ExtractionFailed" ELSE error
       /\ raw_text' = r.text
    /\ calls' = Append(calls, "PyPDF2")
    /\ UNCHANGED <<pdf_exists, pypdf2, pdfminer, disk, normalized, chunks, seg_log,
                   iter_order, pack, pack2, build_log, output>>

LoadSecondary ==
    /\ pc = "load_secondary"
    /\ LET r == load_secondary(pdfminer) IN
       /\ pc' = IF r.error = "none" THEN "normalize" ELSE "exit"
       /\ error' = r.error
       /\ raw_text' = r.text
    /\ calls' = Append(calls, "pdfminer")
    /\ UNCHANGED <<pdf_exists, pypdf2, pdfminer, disk, normalized, chunks, seg_log,
                   iter_order, pack, pack2, build_log, output>>

Normalize ==
    /\ pc = "normalize"
    /\ normalized' = normalize_text(raw_text)
    /\ pc' = "split"
    /\ calls' = Append(calls, "normalize_text")
    /\ UNCHANGED <<pdf_exists, pypdf2, pdfminer, disk, raw_text, chunks, seg_log,
                   iter_order, pack, pack2, build_log, output, error>>

Split ==
    /\ pc = "split"
    /\ LET r == split_chunks(normalized) IN
       /\ chunks' = r.chunks
       /\ seg_log' = [groups |-> r.groups, candidates |-> r.candidates, events |-> r.events]
    /\ pc' = "build"
    /\ calls' = Append(calls, "split_chunks")
    /\ UNCHANGED <<pdf_exists, pypdf2, pdfminer, disk, raw_text, normalized,
                   iter_order, pack, pack2, build_log, output, error>>

Build ==
    /\ pc = "build"
    /\ \E order \in Orders(TokensOf(chunks)), now \in Clock :
          LET r == build_pack(chunks, order, now) IN
          /\ pack' = r.pack
          /\ build_log' = r.doc_freq
          /\ iter_order' = <<order>>
          /\ pc' = IF r.raised THEN "exit" ELSE "write"
          /\ error' = IF r.raised THEN "EmptyIndex" ELSE error
    /\ calls' = Append(calls, "build_pack")
    /\ UNCHANGED <<pdf_exists, pypdf2, pdfminer, disk, raw_text, normalized, chunks,
                   seg_log, pack2, output>>

Write ==
    /\ pc = "write"
    /\ output' = write_pack(disk).output
    /\ error' = write_pack(disk).error
    /\ pc' = IF write_pack(disk).error = "none" THEN "report" ELSE "exit"
    /\ calls' = Append(calls, "write_pack")
    /\ UNCHANGED <<pdf_exists, pypdf2, pdfminer, disk, raw_text, normalized, chunks,
                   seg_log, iter_order, pack, pack2, build_log>>

Report ==
    /\ pc = "report"
    /\ pc' = "done"
    /\ calls' = Append(calls, "print")
    /\ UNCHANGED <<pdf_exists, pypdf2, pdfminer, disk, raw_text, normalized, chunks,
                   seg_log, iter_order, pack, pack2, build_log, output, error>>

\* A second run of normalize_text, split_chunks and build_pack on the same raw
\* text, at the same time or later, its counters iterated in an order of its own.
Rerun ==
    /\ pc = "write"
    /\ pack2 = NoPack
    /\ LET again == split_chunks(normalize_text(raw_text)).chunks IN
       \E order \in Orders(TokensOf(again)), now \in Clock :
          /\ now >= pack.created
          /\ pack2' = build_pack(again, order, now).pack
          /\ iter_order' = Append(iter_order, order)
    /\ pc' = "rerun_done"
    /\ UNCHANGED <<pdf_exists, pypdf2, pdfminer, disk, calls, raw_text, normalized,
                   chunks, seg_log, pack, build_log, output, error>>

\* The state of a run before its first call, but for what it is given.
Fresh ==
    /\ calls = <<>>
    /\ normalized = <<>>
    /\ chunks = <<>>
    /\ seg_log = [groups |-> <<>>, candidates |-> <<>>, events |-> <<>>]
    /\ iter_order = <<>>
    /\ pack = NoPack
    /\ pack2 = NoPack
    /\ build_log = <<>>
    /\ output = "none"
    /\ error = "none"

-----------------------------------------------------------------------------
(* Spec: main, from the command line to the summary, over a small corpus *)

MaxPages == 2

\* "  \n"
PageBlank == <<SP, SP, LF>>
\* "P q"
PageThin == <<"P", SP, "q">>
\* "- p q p q p\n(bullet) q q A p q q 7"
PageGood == <<"-", SP, "p", SP, "q", SP, "p", SP, "q", SP, "p", LF,
              "U2022", SP, "q", SP, "q", SP, "A", SP, "p", SP, "q", SP, "q", SP, "7">>

PageTexts == {PageBlank, PageThin, PageGood}

PageResults == {[ok |-> FALSE, text |-> <<>>]} \cup {[ok |-> TRUE, text |-> t] : t \in PageTexts}

PageLists == UNION {[1..n -> PageResults] : n \in 0..MaxPages}

Init ==
    /\ pc = "main"
    /\ pdf_exists \in BOOLEAN
    /\ pypdf2 \in {[status |-> "absent", pages |-> <<>>], [status |-> "error", pages |-> <<>>]}
                  \cup {[status |-> "ok", pages |-> ps] : ps \in PageLists}
    /\ pdfminer \in {[status |-> "absent", text |-> <<>>], [status |-> "error", text |-> <<>>]}
                    \cup {[status |-> "ok", text |-> t] : t \in PageTexts}
    /\ disk \in {"ok", "mkdir_fails", "dump_fails"}
    /\ raw_text = <<>>
    /\ Fresh

Next ==
    \/ CheckInput
    \/ LoadPrimary
    \/ LoadSecondary
    \/ Normalize
    \/ Split
    \/ Build
    \/ Write
    \/ Report

Spec == Init /\ [][Next]_vars

\* A run whose text came from the secondary backend, about to normalize it.
Extracted(text) ==
    /\ pc = "normalize"
    /\ pdf_exists = TRUE
    /\ pypdf2 = [status |-> "absent", pages |-> <<>>]
    /\ pdfminer = [status |-> "ok", text |-> text]
    /\ disk = "ok"
    /\ raw_text = text
    /\ normalized = <<>>
    /\ chunks = <<>>
    /\ seg_log = [groups |-> <<>>, candidates |-> <<>>, events |-> <<>>]
    /\ iter_order = <<>>
    /\ pack = NoPack
    /\ pack2 = NoPack
    /\ build_log = <<>>
    /\ output = "none"
    /\ error = "none"
    /\ calls = <<"exists", "PyPDF2", "pdfminer">>

-----------------------------------------------------------------------------
(* SpecText: normalize_text and split_chunks on every short text *)

MaxRawLen == 6

TextAlphabet == {LF, SP, "-", "x", "U00E9"}

RawTexts == UNION {[1..n -> TextAlphabet] : n \in 0..MaxRawLen}

InitText == \E text \in RawTexts : Extracted(text)

NextText ==
    \/ Normalize
    \/ Split

SpecText == InitText /\ [][NextText]_vars

-----------------------------------------------------------------------------
(* Texts made of words.  A line lists its words in the order of the word list: *)
(* no operation of the run depends on the order of the words of a line but in  *)
(* the order of its tokens, which build_pack's counters forget.                *)

\* n copies of x
copies(x, n) == [i \in 1..n |-> x]

\* The words 1..nwords, word w taken howmany[w] times, in the order of the list.
RECURSIVE in_list_order(_, _)
in_list_order(howmany, w) ==
    IF w > Len(howmany) THEN <<>>
    ELSE copies(w, howmany[w]) \o in_list_order(howmany, w + 1)

\* Every choice of lo to hi words among the words 1..nwords.
WordLists(nwords, lo, hi) ==
    {in_list_order(howmany, 1) :
        howmany \in {h \in [1..nwords -> 0..hi] : SumSeq(h) \in lo..hi}}

line_of(f, words) == join([i \in 1..Len(f) |-> words[f[i]]])

-----------------------------------------------------------------------------
(* SpecFilter: the two filters, on every text of two lines of a few words *)

MaxLineWords == 3

\* "-", "p", "A" (a stopword once lowered), "7", "p-q"
FilterWords == << <<"-">>, <<"p">>, <<"A">>, <<"7">>, <<"p", "-", "q">> >>

FilterLines == {line_of(f, FilterWords) : f \in WordLists(Len(FilterWords), 0, MaxLineWords)}

FilterTexts == {a \o sep \o b : a \in FilterLines, b \in FilterLines, sep \in {<<LF>>, <<LF, LF>>}}

InitFilter == \E text \in FilterTexts : Extracted(text)

NextFilter ==
    \/ Normalize
    \/ Split
    \/ Build

SpecFilter == InitFilter /\ [][NextFilter]_vars

-----------------------------------------------------------------------------
(* SpecPack: build_pack, run twice, on every text of a few paragraphs *)

MaxTextWords == 10

\* "p", "q", "A" (a stopword once lowered)
PackWords == << <<"p">>, <<"q">>, <<"A">> >>

\* A paragraph has at least MinWords - 1 words: split_chunks drops a shorter
\* one as it drops one of MinWords - 1.
Paragraphs(most) == WordLists(Len(PackWords), MinWords - 1, most)

RECURSIVE code(_)
code(f) == IF f = <<>> THEN 0 ELSE f[1] + (Len(PackWords) + 1) * code(Tail(f))

\* The paragraphs of a text of at most MaxTextWords words, in the order of
\* their codes: build_pack treats each chunk alike wherever it stands.
ParagraphLists ==
    {ps \in UNION {[1..n -> Paragraphs(MaxTextWords - (n - 1) * (MinWords - 1))] :
                       n \in 0..(MaxTextWords \div (MinWords - 1))} :
        /\ SumSeq([i \in 1..Len(ps) |-> Len(ps[i])]) <= MaxTextWords
        /\ \A i \in 1..(Len(ps) - 1) : code(ps[i]) <= code(ps[i + 1])}

RECURSIVE join_paragraphs(_)
join_paragraphs(parts) ==
    IF parts = <<>> THEN <<>>
    ELSE IF Len(parts) = 1 THEN parts[1]
    ELSE parts[1] \o <<LF, LF>> \o join_paragraphs(Tail(parts))

PackTexts ==
    {join_paragraphs([i \in 1..Len(ps) |-> line_of(ps[i], PackWords)]) : ps \in ParagraphLists}

InitPack == \E text \in PackTexts : Extracted(text)

NextPack ==
    \/ Normalize
    \/ Split
    \/ Build
    \/ Rerun

SpecPack == InitPack /\ [][NextPack]_vars

-----------------------------------------------------------------------------
(* Properties of main and load_pdf_text, checked under Spec *)

Called(name) == name \in Range(calls)

\* The fatal errors of a run that come before write_pack.
ErrorsBeforeWrite ==
    {"InputNotFound", "ExtractionUnavailable", "ExtractionFailed", "EmptyIndex"}

\* C1: a run that ends in a fatal error (missing input, no backend, a failed
\* extraction, no usable chunk) has not called write_pack and has left no output
\* file, whole or partial; write_pack is called only after the input was found,
\* a backend returned text and build_pack returned a pack.
C1_FatalErrorsLeaveNoOutput ==
    /\ error \in ErrorsBeforeWrite => (~Called("write_pack") /\ output = "none")
    /\ output # "none" => Called("write_pack")
    /\ Called("write_pack") =>
          /\ pdf_exists
          /\ load_primary(pypdf2).returned \/ load_secondary(pdfminer).error = "none"
          /\ Called("build_pack")
          /\ pack.schema # "none"

\* A run that got as far as build_pack and ended there, nothing written.
C1_Witness ==
    /\ pc = "exit"
    /\ error = "EmptyIndex"
    /\ Called("build_pack")
    /\ output = "none"

\* The position of the first call of name in calls (0 when it was not called).
FirstCall(name) ==
    IF Called(name) THEN CHOOSE i \in 1..Len(calls) :
                             calls[i] = name /\ \A j \in 1..(i - 1) : calls[j] # name
    ELSE 0

\* The primary backend ran and gave no text but whitespace.
PrimaryBlank ==
    /\ pypdf2.status = "ok"
    /\ strip(join_lines(extracted_pages(pypdf2.pages))) = <<>>

\* The parts of C4 that do not say when the secondary backend is tried: the
\* primary backend is tried first; its failure alone ends no run; the run ends
\* in a fatal error when both backends are absent.
FallbackFrame ==
    /\ Called("pdfminer") => (Called("PyPDF2") /\ FirstCall("PyPDF2") < FirstCall("pdfminer"))
    /\ (Called("PyPDF2") /\ pypdf2.status \in {"absent", "error"} /\ ~Called("pdfminer"))
          => (pc = "load_secondary" /\ error = "none")
    /\ (pypdf2.status \in {"absent", "error"} /\ pdfminer.status = "ok")
          => error \notin {"ExtractionUnavailable", "ExtractionFailed"}
    /\ (Called("pdfminer") /\ pdfminer.status = "absent")
          => (pc = "exit" /\ error = "ExtractionUnavailable")

\* C4 as stated: the secondary backend is tried only after the primary one was
\* absent or failed.
C4_SecondaryOnlyAfterFailure ==
    /\ FallbackFrame
    /\ Called("pdfminer") => pypdf2.status \in {"absent", "error"}

\* C4, amended: the secondary backend is tried only after the primary one was
\* absent, failed, or returned text that is empty or all whitespace.
C4_SecondaryAfterFailureOrBlank ==
    /\ FallbackFrame
    /\ Called("pdfminer") => (pypdf2.status \in {"absent", "error"} \/ PrimaryBlank)

\* A run that finished on the text of the secondary backend after the primary
\* one failed.
C4_Witness ==
    /\ pc = "done"
    /\ pypdf2.status = "error"
    /\ Called("pdfminer")
    /\ output = "complete"

-----------------------------------------------------------------------------
(* Properties of normalize_text and split_chunks, checked under SpecText *)

Blank(line) == strip(line) = <<>>
Bulleted(line) == startswith(strip(line), <<"-">>)

\* The groups of lines the segmentation rules give: a group starts at a
\* non-blank line that is the first line, follows a blank line or starts with a
\* hyphen, and runs up to the next blank line, hyphen line or the end.
GroupStarts(lines) ==
    {i \in 1..Len(lines) :
        ~Blank(lines[i]) /\ (i = 1 \/ Blank(lines[i - 1]) \/ Bulleted(lines[i]))}

GroupEnd(lines, s) ==
    CHOOSE e \in s..Len(lines) :
        /\ \A k \in (s + 1)..e : ~Blank(lines[k]) /\ ~Bulleted(lines[k])
        /\ e = Len(lines) \/ Blank(lines[e + 1]) \/ Bulleted(lines[e + 1])

ExpectedGroups(lines) ==
    LET starts == GroupStarts(lines)
        nth(k) == CHOOSE s \in starts : Cardinality({t \in starts : t < s}) = k - 1
    IN [k \in 1..Cardinality(starts) |->
           [i \in 1..(GroupEnd(lines, nth(k)) - nth(k) + 1) |-> strip(lines[nth(k) + i - 1])]]

Segmented == Called("split_chunks")

\* What C9 and its amendment share: a blank line flushes and is not kept, every
\* other line is appended.
LineEvents ==
    \A k \in 1..Len(seg_log.events) :
        LET e == seg_log.events[k] IN
        IF e.stripped = <<>> THEN e.flushed /\ ~e.appended ELSE e.appended

\* C9 as stated: a non-blank line is a bullet boundary exactly when it begins
\* with "- " and the accumulator is not empty.
C9_BoundaryAtDashSpace ==
    Segmented =>
        /\ LineEvents
        /\ \A k \in 1..Len(seg_log.events) :
              LET e == seg_log.events[k] IN
              e.stripped # <<>> => (e.flushed <=> (startswith(e.stripped, <<"-", SP>>) /\ e.had))

\* C9, amended: a non-blank line is a bullet boundary exactly when, its
\* surrounding whitespace removed, it begins with "-" (whatever follows) and the
\* accumulator is not empty; the groups flushed are those of the rules, so no
\* hyphen line joins the lines before it and no other line leaves them.
C9_BoundaryAtDash ==
    Segmented =>
        /\ LineEvents
        /\ \A k \in 1..Len(seg_log.events) :
              LET e == seg_log.events[k] IN
              e.stripped # <<>> => (e.flushed <=> (startswith(e.stripped, <<"-">>) /\ e.had))
        /\ seg_log.groups = ExpectedGroups(splitlines(normalized))

\* A text where one line joined the line before it and a hyphen line then
\* started a group of its own.
C9_Witness ==
    /\ Segmented
    /\ \E k \in 1..Len(seg_log.events) :
          seg_log.events[k].appended /\ seg_log.events[k].had /\ ~seg_log.events[k].flushed
    /\ \E k \in 1..Len(seg_log.events) :
          seg_log.events[k].appended /\ seg_log.events[k].flushed
    /\ Len(seg_log.groups) = 2

\* C10: the text normalize_text returns holds no three newlines in a row.
C10_NoBlankLineRuns ==
    Called("normalize_text") =>
        \A i \in 1..(Len(normalized) - 2) :
            ~(normalized[i] = LF /\ normalized[i + 1] = LF /\ normalized[i + 2] = LF)

-----------------------------------------------------------------------------
(* Properties of the two filters, checked under SpecFilter *)

Built == Called("build_pack")

PackTexts1 == {pack.chunks[i].text : i \in 1..Len(pack.chunks)}
Survivors == IF pack.schema = "none" THEN {} ELSE PackTexts1

\* Every chunk of the pack has at least MinTokens tokens.
SurvivorsHaveTokens == \A c \in Survivors : Len(tokenize(c)) >= MinTokens

\* C2 as stated: every candidate that did not reach the pack, dropped by
\* split_chunks or by build_pack, has fewer than MinTokens tokens.
C2_DiscardedHaveFewerTokens ==
    Built =>
        /\ SurvivorsHaveTokens
        /\ \A c \in Range(seg_log.candidates) \ Survivors : Len(tokenize(c)) < MinTokens

\* C2, amended: every chunk of the pack has at least 5 tokens; every chunk
\* build_pack dropped has fewer than 5 tokens; every candidate split_chunks
\* dropped has fewer than 5 whitespace-separated words, whatever its tokens.
C2_EachFilterByItsCount ==
    Built =>
        /\ SurvivorsHaveTokens
        /\ Survivors \subseteq Range(chunks)
        /\ \A c \in Range(chunks) \ Survivors : Len(tokenize(c)) < MinTokens
        /\ Range(chunks) \subseteq Range(seg_log.candidates)
        /\ \A c \in Range(seg_log.candidates) \ Range(chunks) : Len(split(c)) < MinWords
        /\ \A c \in Range(chunks) : Len(split(c)) >= MinWords

\* A chunk reached the pack though tokenize removed some of its words.
C2_Witness ==
    /\ Built
    /\ \E c \in Survivors : Len(tokenize(c)) < Len(split(c))

-----------------------------------------------------------------------------
(* Properties of build_pack, checked under SpecPack *)

Returned == Built /\ error = "none"

\* C3: build_pack ends the run with EmptyIndex exactly when no chunk it is
\* given has MinTokens tokens or more; otherwise it returns a pack, and a pack
\* has at least one chunk and one vocabulary entry.
C3_EmptyIndexExactlyWhenNoChunk ==
    /\ Built => ((error = "EmptyIndex") <=>
                    (\A i \in 1..Len(chunks) : Len(tokenize(chunks[i])) < MinTokens))
    /\ Built => ((error = "EmptyIndex") <=> (pack.schema = "none"))
    /\ pack.schema # "none" => (Len(pack.chunks) >= 1 /\ Len(pack.vocab) >= 1)
    /\ pack2.schema # "none" => (Len(pack2.chunks) >= 1 /\ Len(pack2.vocab) >= 1)

\* build_pack was given chunks, none with tokens enough, and ended the run.
C3_Witness ==
    /\ Built
    /\ chunks # <<>>
    /\ error = "EmptyIndex"
    /\ pc = "exit"

\* C5: every index of every chunk's tf is an index of vocab, and every index of
\* idf_pairs is in the tf of some chunk.
C5_IndicesConsistent ==
    Returned =>
        /\ \A i \in 1..Len(pack.chunks) : \A k \in 1..Len(pack.chunks[i].tf) :
              0 <= pack.chunks[i].tf[k][1] /\ pack.chunks[i].tf[k][1] < Len(pack.vocab)
        /\ \A j \in 1..Len(pack.idf_pairs) :
              \E i \in 1..Len(pack.chunks) : \E k \in 1..Len(pack.chunks[i].tf) :
                  pack.chunks[i].tf[k][1] = pack.idf_pairs[j][1]

\* A pack of two chunks and two tokens, one of the tokens in one chunk only.
C5_Witness ==
    /\ Returned
    /\ Len(pack.chunks) = 2
    /\ Len(pack.vocab) = 2
    /\ \E i \in 1..2 : Len(pack.chunks[i].tf) = 1

TfOf(pk) == [i \in 1..Len(pk.chunks) |-> pk.chunks[i].tf]

\* C6: a second run on the same text gives the same vocab, idf_pairs and tf
\* arrays, whatever the order either run iterates its counters in and whenever
\* it is made.
C6_RunsAgree ==
    pack2.schema # "none" =>
        /\ pack2.vocab = pack.vocab
        /\ pack2.idf_pairs = pack.idf_pairs
        /\ TfOf(pack2) = TfOf(pack)

\* Two runs that iterated in different orders, the second one later.
C6_Witness ==
    /\ pack2.schema # "none"
    /\ Len(iter_order) = 2
    /\ iter_order[1] # iter_order[2]
    /\ pack2.created # pack.created
    /\ Len(pack.vocab) >= 2
    /\ Len(pack.chunks) >= 2

\* C7: every chunk's norm is greater than zero.
C7_NormPositive ==
    Returned => \A i \in 1..Len(pack.chunks) : pack.chunks[i].norm > 0

\* A pack where every token is in every chunk: log((1 + N) / (1 + df)) is zero
\* for each.
C7_Witness ==
    /\ Returned
    /\ \A j \in 1..Len(pack.idf_pairs) : pack.idf_pairs[j][2] = Scale

\* The chunks of the pack that hold the token, and the token's occurrences in one.
ChunksWith(token) ==
    {i \in 1..Len(pack.chunks) : token \in Range(tokenize(pack.chunks[i].text))}

Occurrences(i, token) == count(tokenize(pack.chunks[i].text), token)

\* C8: the document frequency of an index is the number of chunks of the pack
\* that hold its token, each counted once, and its idf is computed from that
\* number; the count stored for an index in a chunk's tf is the number of
\* occurrences of its token in the chunk, and every token of a chunk is stored.
C8_DocFreqAndTf ==
    Returned =>
        /\ DOMAIN build_log = 0..(Len(pack.vocab) - 1)
        /\ \A idx \in DOMAIN build_log :
              build_log[idx] = Cardinality(ChunksWith(pack.vocab[idx + 1]))
        /\ \A j \in 1..Len(pack.idf_pairs) :
              pack.idf_pairs[j][2] =
                  idf_of(Len(pack.chunks),
                         Cardinality(ChunksWith(pack.vocab[pack.idf_pairs[j][1] + 1])))
        /\ \A i \in 1..Len(pack.chunks) :
              /\ \A k \in 1..Len(pack.chunks[i].tf) :
                    pack.chunks[i].tf[k][2] =
                        Occurrences(i, pack.vocab[pack.chunks[i].tf[k][1] + 1])
              /\ \A t \in Range(tokenize(pack.chunks[i].text)) :
                    \E k \in 1..Len(pack.chunks[i].tf) :
                        pack.vocab[pack.chunks[i].tf[k][1] + 1] = t

\* A token once in the first chunk and twice in the second: its document
\* frequency is 2 and its tf in the second chunk is 2.
C8_Witness ==
    /\ Returned
    /\ Len(pack.chunks) = 2
    /\ \E idx \in DOMAIN build_log :
          /\ Occurrences(1, pack.vocab[idx + 1]) = 1
          /\ Occurrences(2, pack.vocab[idx + 1]) = 2
          /\ build_log[idx] = 2
          /\ \E k \in 1..Len(pack.chunks[2].tf) : pack.chunks[2].tf[k] = <<idx, 2>>

====
